---- MODULE Spec2Model ----
(***************************************************************************)
(* iss_spotter: three chained HTTP lookups (public IP, geolocation by IP,  *)
(* ISS fly-over times by coordinates) composed by                          *)
(* nextISSTimesForMyLocation (src/iss.js) and consumed by the completion   *)
(* handler of the entry point (src/unnamed/part_000).                      *)
(*                                                                         *)
(* JavaScript values are tagged records; strings are TLA+ strings, so the  *)
(* error messages and URLs the code builds with template literals are     *)
(* built here by concatenation and can be compared character by character. *)
(* JSON numbers are kept as their literal text ("37.1"), which is also     *)
(* what a template literal prints for them.  The message text of errors    *)
(* thrown by the engine itself (SyntaxError of JSON.parse, TypeError of a  *)
(* property read on null or of iterating a non-iterable) depends on the    *)
(* engine version and is not modelled: such an error has only its name.    *)
(***************************************************************************)
EXTENDS Integers, Sequences, FiniteSets, TLC

\* ------------------------------------------------------------------ bounds

\* Longest list of passes that a well-formed fly-over body carries.
MaxPasses == 2
\* Invocations of the orchestrator that the state has room for.
NumInvocations == 2

\* ------------------------------------------------------- JavaScript values

Undefined == [t |-> "undefined"]
Null == [t |-> "null"]
Str(s) == [t |-> "string", s |-> s]
Num(lit) == [t |-> "number", lit |-> lit]
Bool(b) == [t |-> "boolean", b |-> b]
Arr(items) == [t |-> "array", items |-> items]
Obj(props) == [t |-> "object", props |-> props]
NoProps == [k \in {} |-> Null]

\* Error(msg): an Error object with that message.
ErrorObj(msg) == [t |-> "error", name |-> "Error", message |-> msg]
\* An error object the engine throws; see the header for its message.
Thrown(name) == [t |-> "error", name |-> name]
SyntaxError == Thrown("SyntaxError")
TypeError == Thrown("TypeError")

\* obj.key for an object value: undefined when the property is absent.
Get(obj, key) == IF key \in DOMAIN obj.props THEN obj.props[key] ELSE Undefined

\* Reading a property of null or undefined throws a TypeError.
IsNullish(v) == v.t \in {"undefined", "null"}

\* !v for the values that occur: undefined, null, false and "" are falsy.
Falsy(v) ==
  \/ v.t \in {"undefined", "null"}
  \/ v.t = "boolean" /\ ~v.b
  \/ v.t = "string" /\ v.s = ""
  \/ v.t = "number" /\ v.lit = "0"

\* `${v}` of a template literal, for the values the code interpolates:
\* fields of a parsed payload, which here are primitives or absent.
ToStr(v) ==
  CASE v.t = "undefined" -> "undefined"
    [] v.t = "null" -> "null"
    [] v.t = "string" -> v.s
    [] v.t = "number" -> v.lit
    [] v.t = "boolean" -> (IF v.b THEN "true" ELSE "false")

\* --------------------------------------------------- response bodies (JSON)

\* The bodies the three services are made to answer with.  A well-formed body
\* is built from the value it denotes, and JSONparse inverts that building.
IPs == {"1.2.3.4", "162.245.144.188"}
IPBody(ip) == "{\"ip\":\"" \o ip \o "\"}"

GeoPlaces ==
  { [ip |-> "1.2.3.4", latitude |-> "37.1", longitude |-> "-122.1"],
    [ip |-> "162.245.144.188", latitude |-> "49.27", longitude |-> "-123.12"] }
GeoBody(g) ==
  "{\"ip\":\"" \o g.ip \o "\",\"success\":true,\"latitude\":" \o g.latitude
    \o ",\"longitude\":" \o g.longitude \o "}"
GeoRefusals ==
  { [ip |-> "1.2.3.4", message |-> "Reserved range"],
    [ip |-> "undefined", message |-> "Invalid IP address"] }
GeoRefusalBody(r) ==
  "{\"ip\":\"" \o r.ip \o "\",\"success\":false,\"message\":\"" \o r.message \o "\"}"
GeoNoCoordsBody == "{\"ip\":\"1.2.3.4\",\"success\":true}"

Passes ==
  { [risetime |-> "134564234", duration |-> "600"],
    [risetime |-> "134570000", duration |-> "645"] }
PassLists == UNION { [1..n -> Passes] : n \in 0..MaxPasses }
PassText(p) == "{\"risetime\":" \o p.risetime \o ",\"duration\":" \o p.duration \o "}"
RECURSIVE JoinPasses(_)
JoinPasses(l) ==
  IF l = <<>> THEN ""
  ELSE IF Len(l) = 1 THEN PassText(l[1])
  ELSE PassText(l[1]) \o "," \o JoinPasses(Tail(l))
FlyoverBody(l) == "{\"response\":[" \o JoinPasses(l) \o "]}"
FlyoverNullPassBody == "{\"response\":[null]}"
FlyoverNullListBody == "{\"response\":null}"

EmptyObjectBody == "{}"
NullBody == "null"
\* Bodies that are not JSON text.
MalformedBodies == {"boom", "<html>Service Unavailable</html>", ""}

PassValue(p) == Obj([risetime |-> Num(p.risetime), duration |-> Num(p.duration)])
PassListValue(l) == Arr([k \in 1..Len(l) |-> PassValue(l[k])])

\* JSON.parse(body): the value the text denotes, or a thrown SyntaxError.
JSONparse(body) ==
  CASE body \in MalformedBodies -> [threw |-> TRUE, error |-> SyntaxError]
    [] body = EmptyObjectBody -> [threw |-> FALSE, value |-> Obj(NoProps)]
    [] body = NullBody -> [threw |-> FALSE, value |-> Null]
    [] \E ip \in IPs \cup {""} : body = IPBody(ip) ->
         [threw |-> FALSE,
          value |-> Obj([ip |-> Str(CHOOSE ip \in IPs \cup {""} : body = IPBody(ip))])]
    [] \E g \in GeoPlaces : body = GeoBody(g) ->
         LET g == CHOOSE h \in GeoPlaces : body = GeoBody(h)
         IN [threw |-> FALSE,
             value |-> Obj([ip |-> Str(g.ip), success |-> Bool(TRUE),
                            latitude |-> Num(g.latitude),
                            longitude |-> Num(g.longitude)])]
    [] \E r \in GeoRefusals : body = GeoRefusalBody(r) ->
         LET r == CHOOSE q \in GeoRefusals : body = GeoRefusalBody(q)
         IN [threw |-> FALSE,
             value |-> Obj([ip |-> Str(r.ip), success |-> Bool(FALSE),
                            message |-> Str(r.message)])]
    [] body = GeoNoCoordsBody ->
         [threw |-> FALSE, value |-> Obj([ip |-> Str("1.2.3.4"), success |-> Bool(TRUE)])]
    [] \E l \in PassLists : body = FlyoverBody(l) ->
         [threw |-> FALSE,
          value |-> Obj([response |->
                           PassListValue(CHOOSE l \in PassLists : body = FlyoverBody(l))])]
    [] body = FlyoverNullPassBody ->
         [threw |-> FALSE, value |-> Obj([response |-> Arr(<<Null>>)])]
    [] body = FlyoverNullListBody ->
         [threw |-> FALSE, value |-> Obj([response |-> Null])]

\* ------------------------------------------------- what the network returns

\* request.get's callback receives (error, response, body): a transport error
\* alone, or a completed response with its status code and body.
TransportErrors ==
  { [t |-> "error", name |-> "Error", code |-> "ENOTFOUND",
     message |-> "getaddrinfo ENOTFOUND"],
    [t |-> "error", name |-> "Error", code |-> "ETIMEDOUT",
     message |-> "connect ETIMEDOUT"] }
Failed(e) == [error |-> e]
Completed(code, body) == [error |-> Null, statusCode |-> code, body |-> body]

IPOutcomes ==
  {Failed(e) : e \in TransportErrors}
    \cup {Completed(200, b) :
            b \in {IPBody(ip) : ip \in IPs \cup {""}}
                    \cup {EmptyObjectBody, NullBody, "<html>Service Unavailable</html>"}}
    \cup {Completed(500, "boom"), Completed(404, IPBody("1.2.3.4"))}

GeoOutcomes ==
  {Failed(e) : e \in TransportErrors}
    \cup {Completed(200, b) :
            b \in {GeoBody(g) : g \in GeoPlaces}
                    \cup {GeoRefusalBody(r) : r \in GeoRefusals}
                    \cup {GeoNoCoordsBody, EmptyObjectBody, NullBody, "boom"}}
    \cup {Completed(500, GeoBody(g)) : g \in {h \in GeoPlaces : h.ip = "1.2.3.4"}}
    \cup {Completed(400, GeoRefusalBody(r)) : r \in {q \in GeoRefusals : q.ip = "undefined"}}

FlyoverOutcomes ==
  {Failed(e) : e \in TransportErrors}
    \cup {Completed(200, b) :
            b \in {FlyoverBody(l) : l \in PassLists}
                    \cup {FlyoverNullPassBody, FlyoverNullListBody, EmptyObjectBody,
                          NullBody, ""}}
    \cup {Completed(500, "boom"),
          Completed(404, FlyoverBody(<<CHOOSE p \in Passes : p.duration = "600">>))}

\* ---------------------------------------------------------- leaf lookups

\* What a leaf hands to its callback for one outcome of its request: the
\* (error, result) pair, and whether that call sits inside the try block, so
\* that an exception thrown by the callback lands in the leaf's catch.
CallbackArgs(error, result, guarded) ==
  [error |-> error, result |-> result, guarded |-> guarded]

\* Mutant: the leaf reports a transport failure as a new error of its own.
TransportFailureWrapped(error) ==
  CallbackArgs(ErrorObj("Network error: " \o error.message), Null, FALSE)

\* if (error) { callback(error, null); return; } of a request's callback.
TransportFailure(error) == CallbackArgs(error, Null, FALSE)

\* Mutant: the status error leaves the response body out.
IPStatusMessageNoBody(code, body) ==
  "Status Code " \o ToString(code) \o " when fetching IP."

IPStatusMessage(code, body) ==
  "Status Code " \o ToString(code) \o " when fetching IP. Response: " \o body

fetchMyIP(o) ==
  IF ~Falsy(o.error) THEN TransportFailure(o.error)
  ELSE IF o.statusCode # 200
    THEN CallbackArgs(ErrorObj(IPStatusMessage(o.statusCode, o.body)), Null, FALSE)
  ELSE LET parsed == JSONparse(o.body)
       IN IF parsed.threw THEN CallbackArgs(parsed.error, Null, FALSE)
          ELSE IF IsNullish(parsed.value) THEN CallbackArgs(TypeError, Null, FALSE)
          ELSE CallbackArgs(Null, Get(parsed.value, "ip"), TRUE)

\* Mutant: the refusal is reported with a generic message.
GeoRefusalMessageGeneric(data) ==
  "Success status was " \o ToStr(Get(data, "success")) \o " when fetching for IP "
    \o ToStr(Get(data, "ip"))

GeoRefusalMessage(data) ==
  "Success status was " \o ToStr(Get(data, "success"))
    \o ". Server message says: " \o ToStr(Get(data, "message"))
    \o " when fetching for IP " \o ToStr(Get(data, "ip"))

\* Mutant: the geolocation lookup guards on the status code as the other two
\* lookups do.
fetchCoordsByIPChecksStatus(o) ==
  IF ~Falsy(o.error) THEN TransportFailure(o.error)
  ELSE IF o.statusCode # 200
    THEN CallbackArgs(ErrorObj(IPStatusMessage(o.statusCode, o.body)), Null, FALSE)
  ELSE LET parsed == JSONparse(o.body)
       IN IF parsed.threw THEN CallbackArgs(parsed.error, Null, FALSE)
          ELSE IF IsNullish(parsed.value) THEN CallbackArgs(TypeError, Null, FALSE)
          ELSE IF Falsy(Get(parsed.value, "success"))
            THEN CallbackArgs(ErrorObj(GeoRefusalMessage(parsed.value)), Null, TRUE)
          ELSE CallbackArgs(Null,
                            Obj([latitude |-> Get(parsed.value, "latitude"),
                                 longitude |-> Get(parsed.value, "longitude")]),
                            TRUE)

fetchCoordsByIP(o) ==
  IF ~Falsy(o.error) THEN TransportFailure(o.error)
  ELSE LET parsed == JSONparse(o.body)
       IN IF parsed.threw THEN CallbackArgs(parsed.error, Null, FALSE)
          ELSE IF IsNullish(parsed.value) THEN CallbackArgs(TypeError, Null, FALSE)
          ELSE IF Falsy(Get(parsed.value, "success"))
            THEN CallbackArgs(ErrorObj(GeoRefusalMessage(parsed.value)), Null, TRUE)
          ELSE CallbackArgs(Null,
                            Obj([latitude |-> Get(parsed.value, "latitude"),
                                 longitude |-> Get(parsed.value, "longitude")]),
                            TRUE)

FlyoverStatusMessage(code, body) ==
  "Status Code " \o ToString(code) \o " when fetching IP. Response: " \o body

fetchISSFlyOverTimes(o) ==
  IF ~Falsy(o.error) THEN TransportFailure(o.error)
  ELSE IF o.statusCode # 200
    THEN CallbackArgs(ErrorObj(FlyoverStatusMessage(o.statusCode, o.body)), Null, FALSE)
  ELSE LET parsed == JSONparse(o.body)
       IN IF parsed.threw THEN CallbackArgs(parsed.error, Null, FALSE)
          ELSE IF IsNullish(parsed.value) THEN CallbackArgs(TypeError, Null, FALSE)
          ELSE CallbackArgs(Null, Get(parsed.value, "response"), TRUE)

\* Mutant: the fly-over request carries the coordinates the wrong way round.
FlyoverURLSwapped(coords) ==
  "https://iss-flyover.herokuapp.com/json/?lat=" \o ToStr(Get(coords, "longitude"))
    \o "&lon=" \o ToStr(Get(coords, "latitude"))

\* The URLs the three requests go to.
IPURL == "https://api.ipify.org?format=json"
GeoURL(ip) == "https://ipwho.is/" \o ToStr(ip)
FlyoverURL(coords) ==
  "https://iss-flyover.herokuapp.com/json/?lat=" \o ToStr(Get(coords, "latitude"))
    \o "&lon=" \o ToStr(Get(coords, "longitude"))

\* ------------------------------------------------- the completion handler

\* The entry point's handler.  It logs an error, or one line per pass; the
\* for-of loop throws a TypeError when passTimes is not iterable, and the
\* read of pass.risetime throws one when an element is null.  (The response
\* field of the bodies above is an array, null or absent; a string, the one
\* other iterable JSON gives, is not among them.)  The date text
\* of a line depends on the time zone: a line is kept as its two values.
RECURSIVE PrintPasses(_, _)
PrintPasses(items, out) ==
  IF items = <<>> THEN [threw |-> FALSE, thrown |-> Null, console |-> out]
  ELSE IF IsNullish(Head(items))
    THEN [threw |-> TRUE, thrown |-> TypeError, console |-> out]
  ELSE PrintPasses(Tail(items),
                   Append(out, [line |-> "Next pass at",
                                risetime |-> Get(Head(items), "risetime"),
                                duration |-> Get(Head(items), "duration")]))

Handler(error, passTimes) ==
  IF ~Falsy(error)
    THEN [threw |-> FALSE, thrown |-> Null,
          console |-> <<[line |-> "It didn't work!", error |-> error]>>]
  ELSE IF passTimes.t # "array"
    THEN [threw |-> TRUE, thrown |-> TypeError, console |-> <<>>]
  ELSE PrintPasses(passTimes.items, <<>>)

\* ----------------------------------------------------------- orchestrator

\* Mutant: the continuation lacks its error guard and carries on.
ShortCircuitsNever(error) == FALSE

\* if (error) of a continuation: an error ends the chain there.
ShortCircuits(error) == ~Falsy(error)

\* callback(error, null) of the three error branches, and callback(null,
\* flyTimes) of the success branch.
\* Mutant: the orchestrator wraps the error in one of its own.
FailWithWrapped(error) ==
  [error |-> ErrorObj("Could not fetch fly-over times: " \o error.name), result |-> Null]
FailWith(error) == [error |-> error, result |-> Null]

\* Mutant: the orchestrator hands over the list in reverse order.
SucceedWithReversed(flyTimes) ==
  [error |-> Null,
   result |-> IF flyTimes.t = "array"
                THEN Arr([k \in 1..Len(flyTimes.items) |->
                            flyTimes.items[Len(flyTimes.items) + 1 - k]])
                ELSE flyTimes]
SucceedWith(flyTimes) == [error |-> Null, result |-> flyTimes]

\* The innermost continuation, run by fetchISSFlyOverTimes' callback.
Finish(error, flyTimes) ==
  IF ShortCircuits(error) THEN FailWith(error) ELSE SucceedWith(flyTimes)

LeafCall(leaf, error, result) == [leaf |-> leaf, error |-> error, result |-> result]

\* Mutant: the fly-over request's callback drops the answer and never calls
\* back.
FlyoverTurnSilent(o) ==
  [leafCalls |-> <<>>, handlerCalls |-> <<>>, console |-> <<>>, path |-> <<>>]

\* Everything one response to the fly-over request sets off, synchronously:
\* the leaf calls its callback, the orchestrator calls the handler, and when
\* the handler throws inside the leaf's try block the catch calls the
\* callback again with the thrown error, which reaches the handler again.
FlyoverTurn(o) ==
  LET first == fetchISSFlyOverTimes(o)
      a1 == Finish(first.error, first.result)
      h1 == Handler(a1.error, a1.result)
      caught == h1.threw /\ first.guarded
      a2 == Finish(h1.thrown, Null)
      h2 == Handler(a2.error, a2.result)
      end(a) == IF a.error = Null THEN "DONE" ELSE "FAILED"
  IN [leafCalls |->
        <<LeafCall("fetchISSFlyOverTimes", first.error, first.result)>>
          \o (IF caught THEN <<LeafCall("fetchISSFlyOverTimes", h1.thrown, Null)>>
              ELSE <<>>),
      handlerCalls |-> <<a1>> \o (IF caught THEN <<a2>> ELSE <<>>),
      console |-> h1.console \o (IF caught THEN h2.console ELSE <<>>),
      path |-> <<end(a1)>> \o (IF caught THEN <<end(a2)>> ELSE <<>>)]

\* ------------------------------------------------------------------ state

Invocations == 1..NumInvocations
\* The entry point calls the orchestrator once.
EntryPointCalls == {1}

VARIABLES
  path,         \* per invocation: the orchestrator positions passed, in order
  requests,     \* per invocation: the requests issued, in order
  inflight,     \* per invocation: the endpoints with a request not yet answered
  responses,    \* per invocation: the outcomes its requests were answered with
  leafCalls,    \* per invocation: the calls of the leaves' callbacks, in order
  handlerCalls, \* per invocation: the calls of the completion handler, in order
  console       \* per invocation: the lines the handler logged

vars == <<path, requests, inflight, responses, leafCalls, handlerCalls, console>>

state(i) == path[i][Len(path[i])]
Request(endpoint, url) == [endpoint |-> endpoint, url |-> url]

Init ==
  /\ path = [i \in Invocations |-> <<"START">>]
  /\ requests = [i \in Invocations |-> <<>>]
  /\ inflight = [i \in Invocations |-> {}]
  /\ responses = [i \in Invocations |-> <<>>]
  /\ leafCalls = [i \in Invocations |-> <<>>]
  /\ handlerCalls = [i \in Invocations |-> <<>>]
  /\ console = [i \in Invocations |-> <<>>]

\* Mutant: the orchestrator remembers the list of a finished invocation and
\* hands it to a later caller without asking the services again.
CallMemoized(i) ==
  /\ state(i) = "START"
  /\ IF \E j \in Invocations : state(j) = "DONE"
       THEN LET j == CHOOSE j \in Invocations : state(j) = "DONE"
            IN /\ path' = [path EXCEPT ![i] = Append(@, "DONE")]
               /\ handlerCalls' = [handlerCalls EXCEPT ![i] = handlerCalls[j]]
               /\ console' = [console EXCEPT ![i] = console[j]]
               /\ UNCHANGED <<requests, inflight, responses, leafCalls>>
       ELSE /\ path' = [path EXCEPT ![i] = Append(@, "IP_PENDING")]
            /\ requests' = [requests EXCEPT ![i] = Append(@, Request("ip", IPURL))]
            /\ inflight' = [inflight EXCEPT ![i] = @ \cup {"ip"}]
            /\ UNCHANGED <<responses, leafCalls, handlerCalls, console>>

\* nextISSTimesForMyLocation(callback): fetchMyIP issues the first request.
Call(i) ==
  /\ state(i) = "START"
  /\ path' = [path EXCEPT ![i] = Append(@, "IP_PENDING")]
  /\ requests' = [requests EXCEPT ![i] = Append(@, Request("ip", IPURL))]
  /\ inflight' = [inflight EXCEPT ![i] = @ \cup {"ip"}]
  /\ UNCHANGED <<responses, leafCalls, handlerCalls, console>>

\* Mutant: the IP is kept in one variable of the module, which all the
\* invocations share: the geolocation request asks about the IP that the
\* first invocation to have received one was given.
IPResponseShared(i, o) ==
  /\ "ip" \in inflight[i]
  /\ LET r == fetchMyIP(o)
         a == FailWith(r.error)
         h == Handler(a.error, a.result)
         holders == {j \in Invocations \ {i} :
                       leafCalls[j] # <<>> /\ leafCalls[j][1].error = Null}
         ip == IF holders = {} THEN r.result
               ELSE leafCalls[CHOOSE j \in holders : \A m \in holders : j <= m][1].result
     IN /\ responses' = [responses EXCEPT ![i] = Append(@, o)]
        /\ leafCalls' = [leafCalls EXCEPT ![i] = Append(@, LeafCall("fetchMyIP", r.error, r.result))]
        /\ IF ShortCircuits(r.error)
             THEN /\ handlerCalls' = [handlerCalls EXCEPT ![i] = Append(@, a)]
                  /\ console' = [console EXCEPT ![i] = @ \o h.console]
                  /\ path' = [path EXCEPT ![i] = Append(@, "FAILED")]
                  /\ inflight' = [inflight EXCEPT ![i] = @ \ {"ip"}]
                  /\ UNCHANGED requests
             ELSE /\ requests' = [requests EXCEPT ![i] = Append(@, Request("geo", GeoURL(ip)))]
                  /\ inflight' = [inflight EXCEPT ![i] = (@ \ {"ip"}) \cup {"geo"}]
                  /\ path' = [path EXCEPT ![i] = Append(@, "COORDS_PENDING")]
                  /\ UNCHANGED <<handlerCalls, console>>

\* The IP request is answered with o: fetchMyIP's callback runs the first
\* continuation, which reports the error or calls fetchCoordsByIP.
IPResponse(i, o) ==
  /\ "ip" \in inflight[i]
  /\ LET r == fetchMyIP(o)
         a == FailWith(r.error)
         h == Handler(a.error, a.result)
     IN /\ responses' = [responses EXCEPT ![i] = Append(@, o)]
        /\ leafCalls' = [leafCalls EXCEPT ![i] = Append(@, LeafCall("fetchMyIP", r.error, r.result))]
        /\ IF ShortCircuits(r.error)
             THEN /\ handlerCalls' = [handlerCalls EXCEPT ![i] = Append(@, a)]
                  /\ console' = [console EXCEPT ![i] = @ \o h.console]
                  /\ path' = [path EXCEPT ![i] = Append(@, "FAILED")]
                  /\ inflight' = [inflight EXCEPT ![i] = @ \ {"ip"}]
                  /\ UNCHANGED requests
             ELSE /\ requests' = [requests EXCEPT ![i] = Append(@, Request("geo", GeoURL(r.result)))]
                  /\ inflight' = [inflight EXCEPT ![i] = (@ \ {"ip"}) \cup {"geo"}]
                  /\ path' = [path EXCEPT ![i] = Append(@, "COORDS_PENDING")]
                  /\ UNCHANGED <<handlerCalls, console>>

\* Mutant: a geolocation request that fails in transport is sent once more.
CoordsResponseRetry(i, o) ==
  /\ "geo" \in inflight[i]
  /\ LET r == fetchCoordsByIP(o)
         a == FailWith(r.error)
         h == Handler(a.error, a.result)
     IN IF o \in {Failed(e) : e \in TransportErrors} /\ Len(requests[i]) = 2
          THEN /\ responses' = [responses EXCEPT ![i] = Append(@, o)]
               /\ requests' = [requests EXCEPT ![i] = Append(@, requests[i][2])]
               /\ UNCHANGED <<path, inflight, leafCalls, handlerCalls, console>>
          ELSE
        /\ responses' = [responses EXCEPT ![i] = Append(@, o)]
        /\ leafCalls' = [leafCalls EXCEPT ![i] = Append(@, LeafCall("fetchCoordsByIP", r.error, r.result))]
        /\ IF ShortCircuits(r.error)
             THEN /\ handlerCalls' = [handlerCalls EXCEPT ![i] = Append(@, a)]
                  /\ console' = [console EXCEPT ![i] = @ \o h.console]
                  /\ path' = [path EXCEPT ![i] = Append(@, "FAILED")]
                  /\ inflight' = [inflight EXCEPT ![i] = @ \ {"geo"}]
                  /\ UNCHANGED requests
             ELSE /\ requests' = [requests EXCEPT ![i] = Append(@, Request("flyover", FlyoverURL(r.result)))]
                  /\ inflight' = [inflight EXCEPT ![i] = (@ \ {"geo"}) \cup {"flyover"}]
                  /\ path' = [path EXCEPT ![i] = Append(@, "OVERPASS_PENDING")]
                  /\ UNCHANGED <<handlerCalls, console>>

\* The geolocation request is answered with o: fetchCoordsByIP's callback
\* runs the second continuation, which reports the error or calls
\* fetchISSFlyOverTimes.
CoordsResponse(i, o) ==
  /\ "geo" \in inflight[i]
  /\ LET r == fetchCoordsByIP(o)
         a == FailWith(r.error)
         h == Handler(a.error, a.result)
     IN /\ responses' = [responses EXCEPT ![i] = Append(@, o)]
        /\ leafCalls' = [leafCalls EXCEPT ![i] = Append(@, LeafCall("fetchCoordsByIP", r.error, r.result))]
        /\ IF ShortCircuits(r.error)
             THEN /\ handlerCalls' = [handlerCalls EXCEPT ![i] = Append(@, a)]
                  /\ console' = [console EXCEPT ![i] = @ \o h.console]
                  /\ path' = [path EXCEPT ![i] = Append(@, "FAILED")]
                  /\ inflight' = [inflight EXCEPT ![i] = @ \ {"geo"}]
                  /\ UNCHANGED requests
             ELSE /\ requests' = [requests EXCEPT ![i] = Append(@, Request("flyover", FlyoverURL(r.result)))]
                  /\ inflight' = [inflight EXCEPT ![i] = (@ \ {"geo"}) \cup {"flyover"}]
                  /\ path' = [path EXCEPT ![i] = Append(@, "OVERPASS_PENDING")]
                  /\ UNCHANGED <<handlerCalls, console>>

\* The fly-over request is answered with o.
FlyoverResponse(i, o) ==
  /\ "flyover" \in inflight[i]
  /\ LET turn == FlyoverTurn(o)
     IN /\ responses' = [responses EXCEPT ![i] = Append(@, o)]
        /\ leafCalls' = [leafCalls EXCEPT ![i] = @ \o turn.leafCalls]
        /\ handlerCalls' = [handlerCalls EXCEPT ![i] = @ \o turn.handlerCalls]
        /\ console' = [console EXCEPT ![i] = @ \o turn.console]
        /\ path' = [path EXCEPT ![i] = @ \o turn.path]
        /\ inflight' = [inflight EXCEPT ![i] = @ \ {"flyover"}]
        /\ UNCHANGED requests

Next ==
  \E i \in EntryPointCalls :
    \/ Call(i)
    \/ \E o \in IPOutcomes : IPResponse(i, o)
    \/ \E o \in GeoOutcomes : CoordsResponse(i, o)
    \/ \E o \in FlyoverOutcomes : FlyoverResponse(i, o)

Spec == Init /\ [][Next]_vars

\* Several callers at once.  Every invocation may be started at any time and
\* the answers to their requests arrive in any order; to keep the interleavings
\* countable each service answers from a part of its outcomes: a transport
\* failure, a status error, a refusal, a missing field, and well-formed bodies
\* with different contents.
ConcurrentIPOutcomes ==
  {o \in IPOutcomes :
     \/ o = Failed(CHOOSE e \in TransportErrors : e.code = "ETIMEDOUT")
     \/ o = Completed(500, "boom")
     \/ \E ip \in IPs : o = Completed(200, IPBody(ip))}
ConcurrentGeoOutcomes ==
  {o \in GeoOutcomes :
     \/ o = Failed(CHOOSE e \in TransportErrors : e.code = "ENOTFOUND")
     \/ \E g \in GeoPlaces : o = Completed(200, GeoBody(g))
     \/ \E r \in GeoRefusals : r.ip = "1.2.3.4" /\ o = Completed(200, GeoRefusalBody(r))}
ConcurrentFlyoverOutcomes ==
  {o \in FlyoverOutcomes :
     \/ o = Completed(500, "boom")
     \/ o = Completed(200, EmptyObjectBody)
     \/ \E l \in PassLists : Len(l) <= 1 /\ o = Completed(200, FlyoverBody(l))}

NextConcurrent ==
  \E i \in Invocations :
    \/ Call(i)
    \/ \E o \in ConcurrentIPOutcomes : IPResponse(i, o)
    \/ \E o \in ConcurrentGeoOutcomes : CoordsResponse(i, o)
    \/ \E o \in ConcurrentFlyoverOutcomes : FlyoverResponse(i, o)

SpecConcurrent == Init /\ [][NextConcurrent]_vars

\* The network answers every request it was sent, and the entry point makes
\* its call: each step that is possible is eventually taken.
Fairness ==
  \A i \in EntryPointCalls :
    /\ WF_vars(Call(i))
    /\ WF_vars(\E o \in IPOutcomes : IPResponse(i, o))
    /\ WF_vars(\E o \in GeoOutcomes : CoordsResponse(i, o))
    /\ WF_vars(\E o \in FlyoverOutcomes : FlyoverResponse(i, o))

FairSpec == Init /\ [][Next]_vars /\ Fairness

\* ================================================================= claims

\* sub occurs in s; s ends with sub.
Contains(s, sub) ==
  \E k \in 1..(Len(s) - Len(sub) + 1) : SubSeq(s, k, k + Len(sub) - 1) = sub
EndsWith(s, sub) ==
  Len(sub) <= Len(s) /\ SubSeq(s, Len(s) - Len(sub) + 1, Len(s)) = sub

\* The calls in a log that carry an error.
WithError(calls) == SelectSeq(calls, LAMBDA c : c.error # Null)
\* A leaf's callback was called with an error / with a result.
LeafFailed(i, leaf) ==
  \E k \in DOMAIN leafCalls[i] : leafCalls[i][k].leaf = leaf /\ leafCalls[i][k].error # Null
\* Every request issued by invocation i has been answered.
Settled(i) == state(i) # "START" /\ inflight[i] = {}
\* A value that is neither null nor undefined.
Meaningful(v) == v \notin {Null, Undefined}

\* C1 (as claimed): whatever the three lookups answer, the completion handler
\* of an invocation is invoked exactly once: never a second time, and not
\* zero times once every request the invocation issued has been answered.
C1_HandlerInvokedExactlyOnce ==
  \A i \in Invocations :
    /\ Len(handlerCalls[i]) <= 1
    /\ Settled(i) => Len(handlerCalls[i]) = 1

\* C2: once the IP lookup has delivered an error the invocation has issued
\* exactly one request, the IP request; once the geolocation lookup has
\* delivered an error no fly-over request is ever issued.
C2_ShortCircuitAtFirstFailure ==
  \A i \in Invocations :
    /\ LeafFailed(i, "fetchMyIP") =>
         Len(requests[i]) = 1 /\ requests[i][1].endpoint = "ip"
    /\ LeafFailed(i, "fetchCoordsByIP") =>
         /\ Len(requests[i]) = 2
         /\ \A k \in DOMAIN requests[i] : requests[i][k].endpoint # "flyover"

\* The geolocation lookup failed after the IP lookup had succeeded, and the
\* handler has been told.
C2_Witness ==
  \E i \in Invocations :
    /\ LeafFailed(i, "fetchCoordsByIP")
    /\ ~LeafFailed(i, "fetchMyIP")
    /\ state(i) = "FAILED"
    /\ Len(handlerCalls[i]) = 1

\* C3: when the fly-over lookup hands over a result, the handler's first call
\* is (null, that very value); for a well-formed body the value is the list of
\* the body's passes, same elements, same order.
C3_ListDeliveredAsProduced ==
  \A i \in Invocations :
    /\ \A k \in DOMAIN leafCalls[i] :
         (leafCalls[i][k].leaf = "fetchISSFlyOverTimes" /\ leafCalls[i][k].error = Null) =>
           /\ handlerCalls[i] # <<>>
           /\ handlerCalls[i][1] = [error |-> Null, result |-> leafCalls[i][k].result]
    /\ \A l \in PassLists :
         (Len(responses[i]) = 3 /\ responses[i][3] = Completed(200, FlyoverBody(l))) =>
           /\ handlerCalls[i][1].error = Null
           /\ handlerCalls[i][1].result.t = "array"
           /\ handlerCalls[i][1].result.items = [k \in 1..Len(l) |-> PassValue(l[k])]

\* All three lookups succeeded with a list of two passes whose later pass
\* comes first, and the handler received them in that order.
C3_Witness ==
  \E i \in Invocations :
    /\ state(i) = "DONE"
    /\ Len(handlerCalls[i]) = 1
    /\ handlerCalls[i][1].error = Null
    /\ handlerCalls[i][1].result.t = "array"
    /\ Len(handlerCalls[i][1].result.items) = 2
    /\ Get(handlerCalls[i][1].result.items[1], "risetime") = Num("134570000")
    /\ Get(handlerCalls[i][1].result.items[2], "risetime") = Num("134564234")

\* C4: the errors the handler receives are, one for one and in order, the
\* error values the leaves handed to their callbacks, unchanged; a fly-over
\* answer of status 500 with body "boom" reaches the handler as an error
\* still carrying 500 and "boom", with no result.
C4_ErrorPassedUnchanged ==
  \A i \in Invocations :
    /\ Len(WithError(handlerCalls[i])) = Len(WithError(leafCalls[i]))
    /\ \A k \in DOMAIN WithError(handlerCalls[i]) :
         WithError(handlerCalls[i])[k].error = WithError(leafCalls[i])[k].error
    /\ (Len(responses[i]) = 3 /\ responses[i][3] = Completed(500, "boom")) =>
         /\ Len(handlerCalls[i]) = 1
         /\ handlerCalls[i][1].result = Null
         /\ handlerCalls[i][1].error.name = "Error"
         /\ Contains(handlerCalls[i][1].error.message, "500")
         /\ Contains(handlerCalls[i][1].error.message, "boom")

\* The fly-over lookup, third in the chain, failed with a status error.
C4_Witness ==
  \E i \in Invocations :
    /\ Len(responses[i]) = 3
    /\ responses[i][3] = Completed(500, "boom")
    /\ state(i) = "FAILED"
    /\ handlerCalls[i][1].error # Null

\* C5 (as claimed): in every call of a leaf callback and of the handler
\* exactly one of error and result is meaningful; a call with an error has a
\* null result; and the handler gets a result only after all three lookups
\* succeeded, never the IP or the coordinates.
C5_AllOrNothing ==
  \A i \in Invocations :
    /\ \A k \in DOMAIN leafCalls[i] :
         /\ (leafCalls[i][k].error # Null) # Meaningful(leafCalls[i][k].result)
         /\ leafCalls[i][k].error # Null => leafCalls[i][k].result = Null
    /\ \A k \in DOMAIN handlerCalls[i] :
         /\ (handlerCalls[i][k].error # Null) # Meaningful(handlerCalls[i][k].result)
         /\ handlerCalls[i][k].error # Null => handlerCalls[i][k].result = Null
         /\ Meaningful(handlerCalls[i][k].result) =>
              /\ Len(responses[i]) = 3
              /\ \E j \in DOMAIN leafCalls[i] :
                   /\ leafCalls[i][j].leaf = "fetchISSFlyOverTimes"
                   /\ leafCalls[i][j].error = Null
                   /\ leafCalls[i][j].result = handlerCalls[i][k].result

\* The leaf that owns an endpoint.
LeafOf(endpoint) ==
  CASE endpoint = "ip" -> "fetchMyIP"
    [] endpoint = "geo" -> "fetchCoordsByIP"
    [] endpoint = "flyover" -> "fetchISSFlyOverTimes"
\* The k-th request of an invocation is answered by its k-th response, which
\* sets off its k-th leaf callback call.
Answered(i, k, endpoint) ==
  /\ k \in DOMAIN responses[i]
  /\ requests[i][k].endpoint = endpoint
  /\ leafCalls[i][k].leaf = LeafOf(endpoint)
IsCompleted(o) == o.error = Null

\* C6 (as claimed): fetchMyIP hands over an IP only if it is a non-empty
\* string taken from a 200 response; a body that is not JSON, or has no ip
\* field, gives an error and no IP, never undefined.
C6_IPIsNonEmptyStringOrError ==
  \A i \in Invocations : \A k \in DOMAIN responses[i] :
    Answered(i, k, "ip") =>
      /\ leafCalls[i][k].error # Null => leafCalls[i][k].result = Null
      /\ leafCalls[i][k].error = Null =>
           /\ leafCalls[i][k].result.t = "string"
           /\ leafCalls[i][k].result.s # ""
           /\ IsCompleted(responses[i][k]) /\ responses[i][k].statusCode = 200

\* C7 (as claimed): fetchISSFlyOverTimes, answered 200 with a body that is not
\* JSON or has no response field, gives an error and no list; it never
\* reports success with an undefined list.
C7_MissingListIsParseError ==
  \A i \in Invocations : \A k \in DOMAIN responses[i] :
    Answered(i, k, "flyover") =>
      /\ leafCalls[i][k].error # Null => leafCalls[i][k].result = Null
      /\ leafCalls[i][k].error = Null => leafCalls[i][k].result # Undefined

\* C8: fetchMyIP and fetchISSFlyOverTimes, answered with a status other than
\* 200, hand over no result and an Error whose message holds the status code
\* and ends with the raw body; the body is not parsed (a body that is not
\* JSON gives no SyntaxError, a well-formed one gives no result).
C8_StatusErrorCarriesCodeAndBody ==
  \A i \in Invocations : \A k \in DOMAIN responses[i] :
    \A endpoint \in {"ip", "flyover"} :
      ( /\ Answered(i, k, endpoint)
        /\ IsCompleted(responses[i][k])
        /\ responses[i][k].statusCode # 200 ) =>
        /\ leafCalls[i][k].result = Null
        /\ leafCalls[i][k].error.t = "error"
        /\ leafCalls[i][k].error.name = "Error"
        /\ Contains(leafCalls[i][k].error.message,
                    "Status Code " \o ToString(responses[i][k].statusCode) \o " ")
        /\ EndsWith(leafCalls[i][k].error.message, "Response: " \o responses[i][k].body)

\* The IP request was answered 404 with a body that would parse to an IP.
C8_Witness ==
  \E i \in Invocations :
    /\ responses[i] = <<Completed(404, IPBody("1.2.3.4"))>>
    /\ Len(leafCalls[i]) = 1
    /\ state(i) = "FAILED"

\* C9 (as claimed): fetchCoordsByIP, answered with a payload whose success is
\* false, hands over no coordinates and an error whose message is the
\* payload's message, with nothing around it.
C9_RefusalMessageVerbatim ==
  \A i \in Invocations : \A k \in DOMAIN responses[i] : \A r \in GeoRefusals :
    ( /\ Answered(i, k, "geo")
      /\ IsCompleted(responses[i][k])
      /\ responses[i][k].body = GeoRefusalBody(r) ) =>
      /\ leafCalls[i][k].result = Null
      /\ leafCalls[i][k].error.message = r.message

\* C9 (amended): fetchCoordsByIP, answered with a payload whose success is
\* false, hands over no coordinates and an Error whose message holds the
\* payload's message verbatim, inside the text "Success status was false.
\* Server message says: <message> when fetching for IP <ip>".
C9_RefusalMessageEmbedded ==
  \A i \in Invocations : \A k \in DOMAIN responses[i] : \A r \in GeoRefusals :
    ( /\ Answered(i, k, "geo")
      /\ IsCompleted(responses[i][k])
      /\ responses[i][k].body = GeoRefusalBody(r) ) =>
      /\ leafCalls[i][k].result = Null
      /\ leafCalls[i][k].error.name = "Error"
      /\ Contains(leafCalls[i][k].error.message, r.message)
      /\ leafCalls[i][k].error.message =
           "Success status was false. Server message says: " \o r.message
             \o " when fetching for IP " \o r.ip

\* The geolocation service refused the IP with a message of its own.
C9_Witness ==
  \E i \in Invocations : \E r \in GeoRefusals :
    /\ Len(responses[i]) = 2
    /\ responses[i][2] = Completed(200, GeoRefusalBody(r))
    /\ leafCalls[i][2].error # Null
    /\ state(i) = "FAILED"

\* C10: a leaf whose request fails in transport hands its callback that same
\* error and a null result; the outcome has no status code or body to read.
C10_TransportErrorPreserved ==
  \A i \in Invocations : \A k \in DOMAIN responses[i] : \A e \in TransportErrors :
    responses[i][k] = Failed(e) =>
      /\ leafCalls[i][k] = LeafCall(LeafOf(requests[i][k].endpoint), e, Null)
      /\ Len(leafCalls[i]) = k

\* The third request, to the fly-over service, failed in transport.
C10_Witness ==
  \E i \in Invocations : \E e \in TransportErrors :
    /\ Len(responses[i]) = 3
    /\ responses[i][3] = Failed(e)
    /\ leafCalls[i][3].leaf = "fetchISSFlyOverTimes"
    /\ leafCalls[i][3].error = e

\* What one invocation does when its requests are answered with resps and
\* nothing else is looked at: the requests it issues and the handler calls
\* it makes.
OwnRequests(resps) ==
  <<Request("ip", IPURL)>>
    \o (IF Len(resps) >= 1 /\ fetchMyIP(resps[1]).error = Null
          THEN <<Request("geo", GeoURL(fetchMyIP(resps[1]).result))>>
                 \o (IF Len(resps) >= 2 /\ fetchCoordsByIP(resps[2]).error = Null
                       THEN <<Request("flyover",
                                      FlyoverURL(fetchCoordsByIP(resps[2]).result))>>
                       ELSE <<>>)
          ELSE <<>>)
OwnHandlerCalls(resps) ==
  IF Len(resps) = 0 THEN <<>>
  ELSE IF fetchMyIP(resps[1]).error # Null
    THEN <<[error |-> fetchMyIP(resps[1]).error, result |-> Null]>>
  ELSE IF Len(resps) = 1 THEN <<>>
  ELSE IF fetchCoordsByIP(resps[2]).error # Null
    THEN <<[error |-> fetchCoordsByIP(resps[2]).error, result |-> Null]>>
  ELSE IF Len(resps) = 2 THEN <<>>
  ELSE FlyoverTurn(resps[3]).handlerCalls

\* Everything the state holds about invocation i.
Own(i) ==
  <<path[i], requests[i], inflight[i], responses[i], leafCalls[i], handlerCalls[i],
    console[i]>>

\* C11: with the requests and responses of the invocations interleaved in any
\* order, the requests an invocation has issued and the calls its handler has
\* received are those its own responses determine, and a step of one
\* invocation changes nothing of another.
C11_InvocationsIndependent ==
  [][ /\ \A i \in Invocations :
           state(i)' # "START" =>
             /\ requests'[i] = OwnRequests(responses'[i])
             /\ handlerCalls'[i] = OwnHandlerCalls(responses'[i])
      /\ \A i, j \in Invocations :
           (i # j /\ Own(i)' # Own(i)) => Own(j)' = Own(j) ]_vars

\* Two invocations were under way at once with different IPs; one has
\* finished and its handler has the list, the other still waits for its
\* coordinates.
C11_Witness ==
  \E i, j \in Invocations :
    /\ state(i) = "DONE"
    /\ Len(handlerCalls[i]) = 1
    /\ handlerCalls[i][1].result.t = "array"
    /\ state(j) = "COORDS_PENDING"
    /\ requests[i][2].url # requests[j][2].url

\* C12: two invocations whose requests were answered alike have issued the
\* same requests and given their handlers the same calls, whichever ran first;
\* and every invocation asks for itself: each response it has used answered a
\* request of its own, three of them when its handler got a list.
C12_NoHiddenState ==
  /\ \A i, j \in Invocations :
       (state(i) # "START" /\ state(j) # "START" /\ responses[i] = responses[j]) =>
         /\ requests[i] = requests[j]
         /\ handlerCalls[i] = handlerCalls[j]
         /\ console[i] = console[j]
         /\ path[i] = path[j]
  /\ \A i \in Invocations :
       /\ Len(requests[i]) = Len(responses[i]) + Cardinality(inflight[i])
       /\ (\E k \in DOMAIN handlerCalls[i] : handlerCalls[i][k].error = Null) =>
            Len(requests[i]) = 3 /\ Len(responses[i]) = 3

\* Two invocations were answered alike, all three lookups succeeding with a
\* pass to show, and each issued its own three requests.
C12_Witness ==
  \E i, j \in Invocations :
    /\ i # j
    /\ state(i) = "DONE" /\ state(j) = "DONE"
    /\ responses[i] = responses[j]
    /\ Len(requests[i]) = 3 /\ Len(requests[j]) = 3
    /\ handlerCalls[i] = handlerCalls[j]
    /\ Len(console[j]) = 1

\* The moves of the orchestrator's state machine, and the endpoint whose
\* request is issued on entering a pending state.
Pending == {"IP_PENDING", "COORDS_PENDING", "OVERPASS_PENDING"}
AllowedMove(a, b) ==
  \/ a = "START" /\ b = "IP_PENDING"
  \/ a = "IP_PENDING" /\ b = "COORDS_PENDING"
  \/ a = "COORDS_PENDING" /\ b = "OVERPASS_PENDING"
  \/ a = "OVERPASS_PENDING" /\ b = "DONE"
  \/ a \in Pending /\ b = "FAILED"
EndpointOf(s) ==
  CASE s = "IP_PENDING" -> "ip"
    [] s = "COORDS_PENDING" -> "geo"
    [] s = "OVERPASS_PENDING" -> "flyover"
PendingPassed(i) == SelectSeq(path[i], LAMBDA s : s \in Pending)
LeafSucceeded(i, leaf) ==
  \E k \in DOMAIN leafCalls[i] : leafCalls[i][k].leaf = leaf /\ leafCalls[i][k].error = Null

\* C13 (as claimed): an invocation moves only START -> IP_PENDING ->
\* COORDS_PENDING -> OVERPASS_PENDING -> DONE, or from a pending state to
\* FAILED; nothing follows DONE or FAILED; each request is issued on entering
\* its own pending state; at most one request is in flight.
C13_LinearStateMachine ==
  \A i \in Invocations :
    /\ \A k \in 1..(Len(path[i]) - 1) : AllowedMove(path[i][k], path[i][k + 1])
    /\ Len(requests[i]) = Len(PendingPassed(i))
    /\ \A k \in DOMAIN requests[i] :
         requests[i][k].endpoint = EndpointOf(PendingPassed(i)[k])
    /\ Cardinality(inflight[i]) <= 1
    /\ state(i) \in {"DONE", "FAILED"} => inflight[i] = {}

\* C14: the geolocation request asks about exactly the IP that the IP lookup
\* delivered, and the fly-over request carries exactly the latitude and the
\* longitude that the geolocation lookup delivered, each in its own place,
\* and nothing of the IP.
C14_DataFlowsForward ==
  \A i \in Invocations :
    /\ \A ip \in IPs :
         (Len(requests[i]) >= 2 /\ responses[i][1] = Completed(200, IPBody(ip))) =>
           /\ leafCalls[i][1].result = Str(ip)
           /\ requests[i][2] = Request("geo", "https://ipwho.is/" \o ip)
    /\ \A g \in GeoPlaces :
         (Len(requests[i]) >= 3 /\ responses[i][2].body = GeoBody(g)) =>
           /\ Get(leafCalls[i][2].result, "latitude") = Num(g.latitude)
           /\ Get(leafCalls[i][2].result, "longitude") = Num(g.longitude)
           /\ requests[i][3] =
                Request("flyover",
                        "https://iss-flyover.herokuapp.com/json/?lat=" \o g.latitude
                          \o "&lon=" \o g.longitude)

\* The IP lookup delivered one address and the geolocation payload named
\* another: the fly-over request is under way with the payload's coordinates.
C14_Witness ==
  \E i \in Invocations : \E g \in GeoPlaces :
    /\ state(i) = "OVERPASS_PENDING"
    /\ responses[i][1] = Completed(200, IPBody("162.245.144.188"))
    /\ g.ip = "1.2.3.4"
    /\ responses[i][2] = Completed(200, GeoBody(g))
    /\ Contains(requests[i][3].url, "lat=37.1&lon=-122.1")

\* C15: an invocation that has been called has issued between one and three
\* requests, no two to the same endpoint, never more than one beyond the
\* responses it has had, and three exactly when the IP lookup and the
\* geolocation lookup both handed over a result.
C15_NoRetry ==
  \A i \in Invocations :
    state(i) # "START" =>
      /\ Len(requests[i]) \in 1..3
      /\ \A k, m \in DOMAIN requests[i] :
           k # m => requests[i][k].endpoint # requests[i][m].endpoint
      /\ Len(requests[i]) <= Len(responses[i]) + 1
      /\ Len(requests[i]) = 3 <=>
           (LeafSucceeded(i, "fetchMyIP") /\ LeafSucceeded(i, "fetchCoordsByIP"))

\* The second request failed in transport and the invocation ended there,
\* two requests issued.
C15_Witness ==
  \E i \in Invocations : \E e \in TransportErrors :
    /\ Len(responses[i]) = 2
    /\ responses[i][2] = Failed(e)
    /\ state(i) = "FAILED"
    /\ Len(requests[i]) = 2

\* C16: the geolocation lookup decides by the body, whatever the status code:
\* a body with success true gives its coordinates and no error, also under a
\* status other than 200; a body with success false gives the refusal error
\* and no coordinates, also under status 200.
C16_GeoIgnoresStatus ==
  \A i \in Invocations :
    (Answered(i, 2, "geo") /\ IsCompleted(responses[i][2])) =>
      /\ \A g \in GeoPlaces :
           responses[i][2].body = GeoBody(g) =>
             leafCalls[i][2] =
               LeafCall("fetchCoordsByIP", Null,
                        Obj([latitude |-> Num(g.latitude), longitude |-> Num(g.longitude)]))
      /\ \A r \in GeoRefusals :
           responses[i][2].body = GeoRefusalBody(r) =>
             /\ leafCalls[i][2].result = Null
             /\ leafCalls[i][2].error.name = "Error"
             /\ Contains(leafCalls[i][2].error.message, r.message)

\* The geolocation request was answered 500 with a body of success true, and
\* the chain went on to the fly-over request.
C16_Witness ==
  \E i \in Invocations : \E g \in GeoPlaces :
    /\ Len(responses[i]) = 2
    /\ responses[i][2] = Completed(500, GeoBody(g))
    /\ leafCalls[i][2].error = Null
    /\ state(i) = "OVERPASS_PENDING"

\* C17 (as claimed): whenever fetchCoordsByIP hands over coordinates, both
\* latitude and longitude are there, with the payload's values; success true
\* with a coordinate missing is not handed over as a result.
C17_CoordinatesComplete ==
  \A i \in Invocations : \A k \in DOMAIN leafCalls[i] :
    (leafCalls[i][k].leaf = "fetchCoordsByIP" /\ leafCalls[i][k].error = Null) =>
      /\ Meaningful(Get(leafCalls[i][k].result, "latitude"))
      /\ Meaningful(Get(leafCalls[i][k].result, "longitude"))

\* C18 (as claimed): a leaf calls the callback it was given at most once for
\* a request, also when the callback throws on being handed a result: the
\* callback calls of an invocation never outnumber its responses.
C18_LeafCallsBackOnce ==
  \A i \in Invocations :
    /\ Len(leafCalls[i]) <= Len(responses[i])
    /\ \A leaf \in {"fetchMyIP", "fetchCoordsByIP", "fetchISSFlyOverTimes"} :
         Len(SelectSeq(leafCalls[i], LAMBDA c : c.leaf = leaf)) <= 1

\* C19: with every request answered in the end, the invocation of the entry
\* point reaches DONE or FAILED with its handler invoked; and from the
\* handler's first call on no request is in flight and none is issued.
C19_EventuallyCompletes ==
  /\ \A i \in EntryPointCalls :
       /\ <>(state(i) \in {"DONE", "FAILED"} /\ handlerCalls[i] # <<>>)
       /\ [](handlerCalls[i] # <<>> => inflight[i] = {})
  /\ [][\A i \in EntryPointCalls :
          handlerCalls[i] # <<>> => requests'[i] = requests[i]]_vars

\* All three requests were answered and the handler has its list.
C19_Witness ==
  \E i \in EntryPointCalls :
    /\ state(i) = "DONE"
    /\ Len(responses[i]) = 3
    /\ Len(handlerCalls[i]) = 1
    /\ handlerCalls[i][1].error = Null
    /\ inflight[i] = {}

====
